---- MODULE Spec2Model ----
(***************************************************************************)
(* Model of the schedule transform of ETS-Proxy (the hand-rolled           *)
(* netlify/functions/schedule.js kept as src/unnamed/part_004):            *)
(* parseDate / parseTime, nthSundayOfMonth, isUsCentralDst,                *)
(* centralToUtcDate, transformSchedule and the handler that calls it; and  *)
(* of the limit and shortlist logic of netlify/functions/nearest-locations *)
(* (the CommonJS handler).                                                 *)
(*                                                                         *)
(* JavaScript strings are sequences of one-character strings, so that      *)
(* split, Number, toISOString, slice and the string comparison of the      *)
(* sort comparators are computed and not assumed.  A JavaScript value is   *)
(* a record [t, n, s]: t its type tag, n its number, s its characters.     *)
(* A Date is its time value: a number of milliseconds kept as              *)
(* [nan, day, ms] (day number since the epoch, milliseconds in the day),   *)
(* which is the ECMAScript MakeDate(day, time) before the multiplication.  *)
(***************************************************************************)
EXTENDS Integers, Sequences, FiniteSets, TLC

VARIABLES
    apiResponse,  \* the argument of the running transformSchedule call
    pc,           \* position: "idle", "loop", "returned", "threw", "converted"
    pos,          \* number of elements of apiResponse.result already visited
    byDate,       \* the byDate object, its DayGroups in insertion order
    daysArray,    \* the value returned by transformSchedule
    dateStr,      \* argument of a direct centralToUtcDate call
    timeStr,      \* argument of a direct centralToUtcDate call
    utcDate,      \* the Date returned by that call
    event,        \* schedule handler: the request's queryStringParameters
    apiKey,       \* schedule handler: process.env.GYMMASTER_API_KEY
    upstream,     \* schedule handler: what the upstream fetch will do
    hpc,          \* schedule handler: position of the handler
    fetches,      \* schedule handler: number of upstream fetches issued
    reply,        \* schedule handler: the response returned, if any
    nevent,       \* nearest-locations: the request (method, body, environment)
    raw,          \* nearest-locations: the items of the Webflow collection
    npc,          \* nearest-locations: position of the handler
    pre,          \* nearest-locations: the shortlist sent to Distance Matrix
    nreply        \* nearest-locations: the response returned, if any

schedVars == <<event, apiKey, upstream, hpc, fetches, reply>>

nearVars == <<nevent, raw, npc, pre, nreply>>

vars ==
    <<apiResponse, pc, pos, byDate, daysArray, dateStr, timeStr, utcDate,
      schedVars, nearVars>>

(***************************************************************************)
(* JavaScript values                                                       *)
(***************************************************************************)
Undefined == [t |-> "undefined", n |-> 0, s |-> <<>>]
Null == [t |-> "null", n |-> 0, s |-> <<>>]
NaN == [t |-> "nan", n |-> 0, s |-> <<>>]
Num(k) == [t |-> "number", n |-> k, s |-> <<>>]
Str(chars) == [t |-> "string", n |-> 0, s |-> chars]

IsNum(v) == v.t = "number"
IsString(v) == v.t = "string"

\* an object that has a `result` property, an object that has none, an array
Container(r) == [t |-> "object", hasResult |-> TRUE, result |-> r]
EmptyObject == [t |-> "object", hasResult |-> FALSE]
Array(elems) == [t |-> "array", items |-> elems]

\* a schedule record of the upstream API: an object with these three properties
\* (a property that is absent is undefined)
Record(a, st, en) ==
    [t |-> "object", hasResult |-> FALSE, arrival |-> a, starttime |-> st, endtime |-> en]

IsArray(v) == v.t = "array"

\* ToBoolean: undefined, null, NaN, 0 and "" are falsy; objects and arrays are truthy
Truthy(v) ==
    CASE v.t = "number" -> v.n # 0
      [] v.t = "string" -> Len(v.s) > 0
      [] v.t \in {"object", "array"} -> TRUE
      [] OTHER -> FALSE

\* GetResult with a bare array taken as its own `result`
GetResultOrSelf(v) ==
    IF v.t = "array" THEN v
    ELSE IF v.t = "object" /\ v.hasResult THEN v.result ELSE Undefined

\* v.result: undefined on a value that has no such property (null and undefined
\* have no properties at all: the callers test for them first)
GetResult(v) == IF v.t = "object" /\ v.hasResult THEN v.result ELSE Undefined

\* reading a property of null or undefined is a TypeError
ThrowsOnRead(v) == v.t \in {"null", "undefined"}

\* the arrival / starttime / endtime property of an element of `result`
Prop(item, name) ==
    IF item.t = "object" /\ "arrival" \in DOMAIN item
    THEN item[name]
    ELSE Undefined

\* a || b
OrElse(a, b) == IF Truthy(a) THEN a ELSE b

\* a destructuring default (x = d): taken for undefined only
Default(v, d) == IF v = Undefined THEN d ELSE v

\* a + k for a number k
Plus(a, k) == IF IsNum(a) THEN Num(a.n + k) ELSE NaN

(***************************************************************************)
(* Strings.  Charset lists the characters of the model in code-unit order. *)
(***************************************************************************)
Digits == <<"0", "1", "2", "3", "4", "5", "6", "7", "8", "9">>

Charset == <<"+", "-", ".", "0", "1", "2", "3", "4", "5", "6", "7", "8", "9",
             ":", "T", "Z", "a">>

CharCode(c) == CHOOSE k \in 1..Len(Charset) : Charset[k] = c

IsDigit(c) == \E k \in 1..Len(Digits) : Digits[k] = c

DigitVal(c) == (CHOOSE k \in 1..Len(Digits) : Digits[k] = c) - 1

\* a < b on strings: the first differing code unit decides, a proper prefix is less
RECURSIVE StrLess(_, _)
StrLess(a, b) ==
    IF b = <<>> THEN FALSE
    ELSE IF a = <<>> THEN TRUE
    ELSE IF Head(a) = Head(b) THEN StrLess(Tail(a), Tail(b))
    ELSE CharCode(Head(a)) < CharCode(Head(b))

\* str.split(sep): the pieces between the separators, at least one piece
RECURSIVE SplitFrom(_, _, _)
SplitFrom(chars, sep, piece) ==
    IF chars = <<>> THEN <<piece>>
    ELSE IF Head(chars) = sep THEN <<piece>> \o SplitFrom(Tail(chars), sep, <<>>)
    ELSE SplitFrom(Tail(chars), sep, Append(piece, Head(chars)))

split(chars, sep) == SplitFrom(chars, sep, <<>>)

\* str.slice(from, to) with 0-based indices, 0 <= from <= to
slice(chars, from, to) ==
    SubSeq(chars, from + 1, IF to < Len(chars) THEN to ELSE Len(chars))

RECURSIVE DigitsValue(_, _)
DigitsValue(chars, acc) ==
    IF chars = <<>> THEN acc
    ELSE DigitsValue(Tail(chars), acc * 10 + DigitVal(Head(chars)))

AllDigits(chars) == \A k \in 1..Len(chars) : IsDigit(chars[k])

\* Number(str) on strings over Charset: "" is 0, an optionally signed run of
\* digits is its value, anything else is NaN
Number(chars) ==
    IF chars = <<>> THEN Num(0)
    ELSE IF AllDigits(chars) THEN Num(DigitsValue(chars, 0))
    ELSE IF Len(chars) > 1 /\ Head(chars) = "-" /\ AllDigits(Tail(chars))
         THEN Num(0 - DigitsValue(Tail(chars), 0))
    ELSE IF Len(chars) > 1 /\ Head(chars) = "+" /\ AllDigits(Tail(chars))
         THEN Num(DigitsValue(Tail(chars), 0))
    ELSE NaN

\* the k-th element (1-based) of an array, undefined past its end
At(arr, k) == IF k <= Len(arr) THEN arr[k] ELSE Undefined

\* n written with at least w digits, n >= 0
RECURSIVE Pad(_, _)
Pad(n, w) ==
    IF n < 10 /\ w <= 1 THEN <<Digits[n + 1]>>
    ELSE Append(Pad(n \div 10, w - 1), Digits[(n % 10) + 1])

(***************************************************************************)
(* Dates: the ECMAScript time-value arithmetic                             *)
(***************************************************************************)
InvalidDate == [nan |-> TRUE, day |-> 0, ms |-> 0]

TimeValue(d, m) == [nan |-> FALSE, day |-> d, ms |-> m]

\* Day number of the first day of month mn (0..11) of year ym
DayFromYearMonth(ym, mn) ==
    LET y == IF mn < 2 THEN ym - 1 ELSE ym
        era == y \div 400
        yoe == y - era * 400
        mp == IF mn < 2 THEN mn + 10 ELSE mn - 2
        doy == (153 * mp + 2) \div 5
        doe == yoe * 365 + yoe \div 4 - yoe \div 100 + doy
    IN era * 146097 + doe - 719468

\* MakeDay(year, month, date): the month carries into the year, the date is added
MakeDay(year, month, date) ==
    DayFromYearMonth(year + month \div 12, month % 12) + date - 1

\* Date.UTC(year, month, date, hours, minutes, seconds): a year of 0..99 means
\* 1900 + year; hours, minutes and seconds carry into the day; a time value
\* beyond 8.64e15 ms is clipped to NaN
DateUTC(year, month, date, hours, minutes, seconds) ==
    IF ~(IsNum(year) /\ IsNum(month) /\ IsNum(date)
          /\ IsNum(hours) /\ IsNum(minutes) /\ IsNum(seconds))
    THEN InvalidDate
    ELSE LET yr == IF 0 <= year.n /\ year.n <= 99 THEN 1900 + year.n ELSE year.n
             secs == hours.n * 3600 + minutes.n * 60 + seconds.n
             day == MakeDay(yr, month.n, date.n) + secs \div 86400
             ms == (secs % 86400) * 1000
             maxDay == 100000 * 1000
         IN IF day > maxDay \/ day < 0 - maxDay \/ (day = maxDay /\ ms > 0)
            THEN InvalidDate
            ELSE TimeValue(day, ms)

\* date.setUTCHours(h, 0, 0, 0)
setUTCHours(date, h) ==
    IF date.nan THEN InvalidDate ELSE TimeValue(date.day, h * 3600000)

\* date.getUTCDay(): 0 = Sunday; NaN for an invalid Date
getUTCDay(date) == IF date.nan THEN NaN ELSE Num((date.day + 4) % 7)

\* a >= b and a < b on Dates (false when either is invalid)
DateGeq(a, b) ==
    ~a.nan /\ ~b.nan /\ (a.day > b.day \/ (a.day = b.day /\ a.ms >= b.ms))

DateLess(a, b) ==
    ~a.nan /\ ~b.nan /\ (a.day < b.day \/ (a.day = b.day /\ a.ms < b.ms))

\* YearFromTime, MonthFromTime (1..12) and DateFromTime of a day number
CivilFromDay(day) ==
    LET z == day + 719468
        era == z \div 146097
        doe == z - era * 146097
        yoe == (doe - doe \div 1460 + doe \div 36524 - doe \div 146096) \div 365
        doy == doe - (365 * yoe + yoe \div 4 - yoe \div 100)
        mp == (5 * doy + 2) \div 153
        d == doy - (153 * mp + 2) \div 5 + 1
        m == IF mp < 10 THEN mp + 3 ELSE mp - 9
        y == yoe + era * 400 + (IF m <= 2 THEN 1 ELSE 0)
    IN [year |-> y, month |-> m, date |-> d]

\* date.toISOString() of a valid Date: YYYY-MM-DDTHH:mm:ss.sssZ, the year as
\* +YYYYYY or -YYYYYY outside 0..9999
ISOString(date) ==
    LET c == CivilFromDay(date.day)
        secs == date.ms \div 1000
        yearPart == IF c.year >= 0 /\ c.year <= 9999 THEN Pad(c.year, 4)
                    ELSE IF c.year < 0 THEN <<"-">> \o Pad(0 - c.year, 6)
                    ELSE <<"+">> \o Pad(c.year, 6)
    IN yearPart \o <<"-">> \o Pad(c.month, 2) \o <<"-">> \o Pad(c.date, 2)
         \o <<"T">> \o Pad(secs \div 3600, 2) \o <<":">> \o Pad((secs \div 60) % 60, 2)
         \o <<":">> \o Pad(secs % 60, 2) \o <<".">> \o Pad(date.ms % 1000, 3) \o <<"Z">>

(***************************************************************************)
(* parseDate, parseTime, nthSundayOfMonth, isUsCentralDst, centralToUtcDate *)
(***************************************************************************)
parseDate(v) ==
    IF ~Truthy(v) \/ ~IsString(v)
    THEN [year |-> Undefined, month |-> Undefined, day |-> Undefined]
    ELSE LET parts == split(v.s, "-")
             nums == [k \in 1..Len(parts) |-> Number(parts[k])]
         IN [year |-> At(nums, 1), month |-> At(nums, 2), day |-> At(nums, 3)]

\* parseTime without the `|| 0` of the seconds
parseTimeNoSecondDefault(v) ==
    IF ~Truthy(v) \/ ~IsString(v)
    THEN [hour |-> Undefined, minute |-> Undefined, second |-> Undefined]
    ELSE LET parts == split(v.s, ":")
             nums == [k \in 1..Len(parts) |-> Number(parts[k])]
         IN [hour |-> At(nums, 1), minute |-> At(nums, 2), second |-> At(nums, 3)]

parseTime(v) ==
    IF ~Truthy(v) \/ ~IsString(v)
    THEN [hour |-> Undefined, minute |-> Undefined, second |-> Undefined]
    ELSE LET parts == split(v.s, ":")
             nums == [k \in 1..Len(parts) |-> Number(parts[k])]
         IN [hour |-> At(nums, 1), minute |-> At(nums, 2),
             second |-> OrElse(At(nums, 3), Num(0))]

\* day of the month of the nth Sunday, from the weekday of the 1st
SundayOfMonth(firstDay, nth) == 1 + ((7 - firstDay) % 7) + (nth - 1) * 7

nthSundayOfMonth(year, month, nth) ==
    LET first == DateUTC(year, Num(month - 1), Num(1), Num(0), Num(0), Num(0))
        firstDay == getUTCDay(first)
        dayOfMonth == IF IsNum(firstDay) THEN Num(SundayOfMonth(firstDay.n, nth)) ELSE NaN
    IN DateUTC(year, Num(month - 1), dayOfMonth, Num(0), Num(0), Num(0))

isUsCentralDst(year, month, day, hour) ==
    LET dstStart == setUTCHours(nthSundayOfMonth(year, 3, 2), 2)
        dstEnd == setUTCHours(nthSundayOfMonth(year, 11, 1), 2)
        localAsUtc == DateUTC(year, Plus(month, -1), day, OrElse(hour, Num(0)),
                              Num(0), Num(0))
    IN DateGeq(localAsUtc, dstStart) /\ DateLess(localAsUtc, dstEnd)

\* offsetHours with the two offsets exchanged
offsetHoursSwapped(inDst) == IF inDst THEN 6 ELSE 5

\* line 53: const offsetHours = inDst ? 5 : 6
offsetHours(inDst) == IF inDst THEN 5 ELSE 6

centralToUtcDate(d, t) ==
    LET pd == parseDate(d)
        pt == parseTime(t)
        hour == Default(pt.hour, Num(0))
        minute == Default(pt.minute, Num(0))
        second == Default(pt.second, Num(0))
    IN IF ~Truthy(pd.year) \/ ~Truthy(pd.month) \/ ~Truthy(pd.day)
       THEN InvalidDate
       ELSE DateUTC(pd.year, Plus(pd.month, -1), pd.day,
                    Plus(hour, offsetHours(isUsCentralDst(pd.year, pd.month, pd.day, hour))),
                    minute, second)

(***************************************************************************)
(* transformSchedule                                                       *)
(***************************************************************************)
DAY_SHORT == <<"Sun", "Mon", "Tue", "Wed", "Thu", "Fri", "Sat">>

DAY_FULL == <<"Sunday", "Monday", "Tuesday", "Wednesday", "Thursday", "Friday",
              "Saturday">>

\* EntryOutcome without the !apiResponse test: .result is read first
EntryOutcomeUnguarded(a) ==
    IF ThrowsOnRead(a) THEN "throw"
    ELSE IF ~IsArray(GetResult(a)) THEN "empty" ELSE "loop"

\* line 135: the guard that returns [] for a structurally invalid argument;
\* "throw" would be a TypeError raised by reading .result
EntryOutcome(a) ==
    IF ~Truthy(a) \/ ~IsArray(GetResult(a)) THEN "empty" ELSE "loop"

\* MissingField without the test of endtime
MissingFieldNoEnd(item) ==
    ~Truthy(Prop(item, "arrival")) \/ ~Truthy(Prop(item, "starttime"))

\* line 144: a record without arrival, starttime or endtime is passed over
MissingField(item) ==
    ~Truthy(Prop(item, "arrival")) \/ ~Truthy(Prop(item, "starttime"))
      \/ ~Truthy(Prop(item, "endtime"))

\* lines 149-158: toISOString throws a RangeError on an invalid Date and the
\* catch passes the record over
ConversionThrows(item) ==
    centralToUtcDate(Prop(item, "arrival"), Prop(item, "starttime")).nan
      \/ centralToUtcDate(Prop(item, "arrival"), Prop(item, "endtime")).nan

\* GroupIndex that takes the first DayGroup whatever its key
GroupIndexFirst(groups, dateKey) == IF Len(groups) > 0 THEN 1 ELSE 0

\* byDate[dateKey]: the position of the DayGroup of that key, 0 when there is none
GroupIndex(groups, dateKey) ==
    IF \E k \in 1..Len(groups) : groups[k].date = dateKey
    THEN CHOOSE k \in 1..Len(groups) : groups[k].date = dateKey
    ELSE 0

\* lines 161-166: the weekday index of the arrival date
DowIndex(arrival) ==
    LET pd == parseDate(arrival)
    IN getUTCDay(DateUTC(pd.year, Plus(pd.month, -1), pd.day, Num(0), Num(0), Num(0))).n

\* lines 179-204: the class pushed for the element at position src of `result`
\* (src is kept to tell the classes of equal records apart; the pass-through
\* properties id, name, location, availability and description are left out)
NewClass(item, src) ==
    LET arrival == Prop(item, "arrival")
        startUtcIso == ISOString(centralToUtcDate(arrival, Prop(item, "starttime")))
        endUtcIso == ISOString(centralToUtcDate(arrival, Prop(item, "endtime")))
    IN [src |-> src,
        dateCentral |-> arrival.s,
        dayOfWeek |-> DAY_SHORT[DowIndex(arrival) + 1],
        startTimeCentral |-> Prop(item, "starttime"),
        endTimeCentral |-> Prop(item, "endtime"),
        startTimeUTC |-> startUtcIso,
        endTimeUTC |-> endUtcIso,
        startTimeUTCShort |-> slice(startUtcIso, 11, 16),
        endTimeUTCShort |-> slice(endUtcIso, 11, 16)]

\* lines 168-204: create the DayGroup of the arrival string at its first class,
\* then push the class onto it
PushClass(groups, item, src) ==
    LET arrival == Prop(item, "arrival")
        dateKey == arrival.s
        withGroup == IF GroupIndex(groups, dateKey) = 0
                     THEN Append(groups, [date |-> dateKey,
                                          day |-> DAY_SHORT[DowIndex(arrival) + 1],
                                          dayFull |-> DAY_FULL[DowIndex(arrival) + 1],
                                          classes |-> <<>>])
                     ELSE groups
        g == GroupIndex(withGroup, dateKey)
    IN [withGroup EXCEPT ![g].classes = Append(@, NewClass(item, src))]

\* compareDays with the two results exchanged
compareDaysSwapped(a, b) ==
    IF StrLess(a.date, b.date) THEN 1 ELSE IF StrLess(b.date, a.date) THEN -1 ELSE 0

\* line 210: the comparator of the sort of the days
compareDays(a, b) ==
    IF StrLess(a.date, b.date) THEN -1 ELSE IF StrLess(b.date, a.date) THEN 1 ELSE 0

\* compareClasses on the end time
compareClassesByEnd(a, b) ==
    IF StrLess(a.endTimeUTC, b.endTimeUTC) THEN -1
    ELSE IF StrLess(b.endTimeUTC, a.endTimeUTC) THEN 1 ELSE 0

\* lines 214-216: the comparator of the sort of the classes of a day
compareClasses(a, b) ==
    IF StrLess(a.startTimeUTC, b.startTimeUTC) THEN -1
    ELSE IF StrLess(b.startTimeUTC, a.startTimeUTC) THEN 1 ELSE 0

\* nearest-locations.js line 279: the comparator of the sort by air distance
compareAir(a, b) == a.airKm - b.airKm

\* nearest-locations.js lines 302-307: the comparator of the sort of the
\* merged shortlist, by driving time when both have one, else by distance
compareMerged(a, b) ==
    IF a.hasDuration /\ b.hasDuration
    THEN a.durationSeconds - b.durationSeconds
    ELSE a.distanceMeters - b.distanceMeters

\* the comparator of the sort by that property
compare(a, b, byField) ==
    CASE byField = "date" -> compareDays(a, b)
      [] byField = "startTimeUTC" -> compareClasses(a, b)
      [] byField = "airKm" -> compareAir(a, b)
      [] byField = "driving" -> compareMerged(a, b)

\* InsertPoint of a sort that is not stable: an element goes in front of the
\* elements that compare equal to it
InsertPointUnstable(sorted, x, byField) ==
    IF \E k \in 1..Len(sorted) : compare(sorted[k], x, byField) >= 0
    THEN CHOOSE k \in 1..Len(sorted) :
            /\ compare(sorted[k], x, byField) >= 0
            /\ \A j \in 1..(k - 1) : compare(sorted[j], x, byField) < 0
    ELSE Len(sorted) + 1

\* Array.prototype.sort is stable (ECMAScript 2019): an element goes behind
\* every element that does not compare greater than it
InsertPoint(sorted, x, byField) ==
    IF \E k \in 1..Len(sorted) : compare(sorted[k], x, byField) > 0
    THEN CHOOSE k \in 1..Len(sorted) :
            /\ compare(sorted[k], x, byField) > 0
            /\ \A j \in 1..(k - 1) : compare(sorted[j], x, byField) <= 0
    ELSE Len(sorted) + 1

InsertAt(seq, k, x) == SubSeq(seq, 1, k - 1) \o <<x>> \o SubSeq(seq, k, Len(seq))

RECURSIVE SortFrom(_, _, _)
SortFrom(sorted, rest, byField) ==
    IF rest = <<>> THEN sorted
    ELSE SortFrom(InsertAt(sorted, InsertPoint(sorted, Head(rest), byField), Head(rest)),
                  Tail(rest), byField)

\* line 210: daysArray.sort(...)
SortDays(groups) == SortFrom(<<>>, groups, "date")

\* lines 214-216: day.classes.sort(...)
SortClasses(classes) == SortFrom(<<>>, classes, "startTimeUTC")

\* lines 207-219: Object.values(byDate), the days sorted, then each day's classes
SortedDays(groups) ==
    LET days == SortDays(groups)
    IN [k \in 1..Len(days) |-> [days[k] EXCEPT !.classes = SortClasses(@)]]

Items == GetResult(apiResponse).items

\* lines 141-205 as one pass over the elements from position k on:
\* the groups built, or the TypeError of an element without properties
RECURSIVE LoopFrom(_, _, _)
LoopFrom(groups, elems, k) ==
    IF k > Len(elems) THEN [threw |-> FALSE, groups |-> groups]
    ELSE IF ThrowsOnRead(elems[k]) THEN [threw |-> TRUE, groups |-> groups]
    ELSE LoopFrom(IF MissingField(elems[k]) \/ ConversionThrows(elems[k])
                  THEN groups
                  ELSE PushClass(groups, elems[k], k),
                  elems, k + 1)

\* lines 134-220: the outcome of transformSchedule(a) as a value
TransformOutcome(a) ==
    IF EntryOutcome(a) = "empty" THEN [pc |-> "returned", value |-> <<>>]
    ELSE IF EntryOutcome(a) = "throw" THEN [pc |-> "threw", value |-> <<>>]
    ELSE LET r == LoopFrom(<<>>, GetResult(a).items, 1)
         IN IF r.threw THEN [pc |-> "threw", value |-> <<>>]
            ELSE [pc |-> "returned", value |-> SortedDays(r.groups)]

(***************************************************************************)
(* Actions                                                                 *)
(***************************************************************************)
\* a byDate object kept from the invocation before
ByDateKept == byDate

\* line 139: const byDate = {}
NewByDate == <<>>

\* transformSchedule is entered: lines 134-139
Call ==
    /\ pc = "idle"
    /\ pc' = IF EntryOutcome(apiResponse) = "loop" THEN "loop"
             ELSE IF EntryOutcome(apiResponse) = "empty" THEN "returned"
             ELSE "threw"
    /\ pos' = 0
    /\ byDate' = NewByDate
    /\ daysArray' = <<>>
    /\ UNCHANGED <<apiResponse, dateStr, timeStr, utcDate, schedVars, nearVars>>

\* one pass of the for-of loop: lines 141-205
LoopStep ==
    /\ pc = "loop"
    /\ pos < Len(Items)
    /\ LET item == Items[pos + 1]
       IN IF ThrowsOnRead(item)
          THEN /\ pc' = "threw"
               /\ UNCHANGED <<pos, byDate>>
          ELSE /\ pc' = "loop"
               /\ pos' = pos + 1
               /\ byDate' = IF MissingField(item) \/ ConversionThrows(item)
                            THEN byDate
                            ELSE PushClass(byDate, item, pos + 1)
    /\ UNCHANGED <<apiResponse, daysArray, dateStr, timeStr, utcDate, schedVars, nearVars>>

\* the loop is over: lines 207-219
Finish ==
    /\ pc = "loop"
    /\ pos = Len(Items)
    /\ daysArray' = SortedDays(byDate)
    /\ pc' = "returned"
    /\ UNCHANGED <<apiResponse, pos, byDate, dateStr, timeStr, utcDate, schedVars, nearVars>>

\* a direct call of centralToUtcDate: lines 42-58
Convert ==
    /\ pc = "idle"
    /\ utcDate' = centralToUtcDate(dateStr, timeStr)
    /\ pc' = "converted"
    /\ UNCHANGED <<apiResponse, pos, byDate, daysArray, dateStr, timeStr, schedVars, nearVars>>

(***************************************************************************)
(* The schedule handler: exports.handler, lines 72-129.  The handler runs  *)
(* from one await to the next; transformSchedule is the call modelled      *)
(* above, made on the parsed body of the upstream response.                *)
(***************************************************************************)
\* the object the handler returns: statusCode and, in the body, either the
\* `error` text or the transformed schedule
Response(status, error, body) == [statusCode |-> status, error |-> error, body |-> body]

NoResponse == Response(0, "", <<>>)

\* event.queryStringParameters: null, or an object with or without company_id
Query(id) == [t |-> "object", company_id |-> id]

\* line 73: const { company_id } = event.queryStringParameters || {}
company_id == IF Truthy(event) THEN event.company_id ELSE Undefined

\* line 75: if (!company_id)
MissingCompany == ~Truthy(company_id)

\* a handler that takes every key for present
KeyNeverMissing == FALSE

\* lines 82-84: if (!API_KEY)
MissingKey == ~Truthy(apiKey)

\* what the upstream fetch will do: reject (a network failure), or resolve to
\* a response of that status whose body is, or is not, JSON
Rejects == [rejects |-> TRUE, status |-> 0, json |-> FALSE, data |-> Undefined]

Resolves(status, json, data) ==
    [rejects |-> FALSE, status |-> status, json |-> json, data |-> data]

\* Response.ok of fetch: the status is in the range 200-299
ok(response) == response.status \in 200..299

\* lines 76-79
MissingCompanyReply == Response(400, "Missing company_id parameter", <<>>)

\* lines 85-90
MissingKeyReply == Response(500, "Server configuration error: API Key missing", <<>>)

\* lines 99-104: the upstream's status code with the text "External API error"
UpstreamErrorReply(response) == Response(response.status, "External API error", <<>>)

\* a catch block that answers as the configuration check does
CaughtAsMissingKey == MissingKeyReply

\* lines 118-127: the catch block
CaughtReply == Response(500, "Failed to fetch schedule", <<>>)

\* lines 110-116
ScheduleReply(days) == Response(200, "", days)

\* lines 72-80: the handler is entered and tests company_id
Enter ==
    /\ hpc = "start"
    /\ IF MissingCompany
       THEN /\ reply' = MissingCompanyReply
            /\ hpc' = "done"
       ELSE /\ hpc' = "checkKey"
            /\ UNCHANGED reply
    /\ UNCHANGED <<apiResponse, pc, pos, byDate, daysArray, dateStr, timeStr, utcDate,
                   event, apiKey, upstream, fetches, nearVars>>

\* lines 82-91: the API key is read and tested
CheckKey ==
    /\ hpc = "checkKey"
    /\ IF MissingKey
       THEN /\ reply' = MissingKeyReply
            /\ hpc' = "done"
       ELSE /\ hpc' = "fetch"
            /\ UNCHANGED reply
    /\ UNCHANGED <<apiResponse, pc, pos, byDate, daysArray, dateStr, timeStr, utcDate,
                   event, apiKey, upstream, fetches, nearVars>>

\* lines 93-96: the upstream request is issued and awaited
Fetch ==
    /\ hpc = "fetch"
    /\ fetches' = fetches + 1
    /\ hpc' = "awaitFetch"
    /\ UNCHANGED <<apiResponse, pc, pos, byDate, daysArray, dateStr, timeStr, utcDate,
                   event, apiKey, upstream, reply, nearVars>>

\* lines 96-107: the fetch settles; a rejection goes to the catch block, a
\* response that is not ok is answered, an ok response is read as JSON
FetchSettles ==
    /\ hpc = "awaitFetch"
    /\ IF upstream.rejects
       THEN /\ reply' = CaughtReply
            /\ hpc' = "done"
       ELSE IF ~ok(upstream)
       THEN /\ reply' = UpstreamErrorReply(upstream)
            /\ hpc' = "done"
       ELSE /\ hpc' = "awaitJson"
            /\ UNCHANGED reply
    /\ UNCHANGED <<apiResponse, pc, pos, byDate, daysArray, dateStr, timeStr, utcDate,
                   event, apiKey, upstream, fetches, nearVars>>

\* lines 107-108: response.json() settles; a body that is no JSON goes to the
\* catch block, otherwise transformSchedule(data) is called
JsonSettles ==
    /\ hpc = "awaitJson"
    /\ IF upstream.json
       THEN /\ apiResponse' = upstream.data
            /\ pc' = "idle"
            /\ hpc' = "transform"
            /\ UNCHANGED reply
       ELSE /\ reply' = CaughtReply
            /\ hpc' = "done"
            /\ UNCHANGED <<apiResponse, pc>>
    /\ UNCHANGED <<pos, byDate, daysArray, dateStr, timeStr, utcDate,
                   event, apiKey, upstream, fetches, nearVars>>

\* lines 108-127: transformSchedule has returned or thrown; its value is sent
\* with status 200, its exception goes to the catch block
Respond ==
    /\ hpc = "transform"
    /\ pc \in {"returned", "threw"}
    /\ reply' = IF pc = "threw" THEN CaughtReply ELSE ScheduleReply(daysArray)
    /\ hpc' = "done"
    /\ UNCHANGED <<apiResponse, pc, pos, byDate, daysArray, dateStr, timeStr, utcDate,
                   event, apiKey, upstream, fetches, nearVars>>

(***************************************************************************)
(* The nearest-locations handler (netlify/functions/nearest-locations.js,  *)
(* exports.handler, lines 225-336).  A request body may carry a fractional *)
(* limit, so the numbers of the limit arithmetic are kept in halves: h     *)
(* stands for h / 2.  The distance of a location from the user (airKm,     *)
(* haversineKm) and the answer of Distance Matrix for it (drive) are data  *)
(* of the item: the services that compute them are outside the model.      *)
(***************************************************************************)
PRESELECT == 25

DM_BUFFER == 3

\* a JSON number h / 2
Half(h) == [t |-> "number/2", n |-> h, s |-> <<>>]

\* Number(v) of a value of a JSON body
ToNumber(v) ==
    CASE v.t = "number" -> v
      [] v.t = "number/2" -> v
      [] v.t = "string" -> Number(v.s)
      [] v.t = "null" -> Num(0)
      [] OTHER -> NaN

\* the halves of a number
Halves(x) == IF x.t = "number/2" THEN x.n ELSE 2 * x.n

Min(a, b) == IF a <= b THEN a ELSE b

Max(a, b) == IF a >= b THEN a ELSE b

\* safeLimit without the upper clamp
safeLimitNoCap(limit) ==
    LET x == ToNumber(Default(limit, Num(3)))
        given == IF x.t = "nan" \/ x.n = 0 THEN 2 * 3 ELSE Halves(x)
    IN Max(2 * 1, given)

\* lines 230, 269: limit = 3 when the body has none, then
\* Math.max(1, Math.min(Number(limit) || 3, 10)), in halves
safeLimit(limit) ==
    LET x == ToNumber(Default(limit, Num(3)))
        given == IF x.t = "nan" \/ x.n = 0 THEN 2 * 3 ELSE Halves(x)
    IN Max(2 * 1, Min(given, 2 * 10))

\* array.slice(0, end) for an end >= 0 given in halves: the end is truncated
\* to an integer (ToIntegerOrInfinity)
sliceTo(arr, end) == SubSeq(arr, 1, Min(end \div 2, Len(arr)))

\* lines 113-121: normalizeItem keeps an item whose latitude and longitude
\* are finite numbers
HasLatLng(item) == ToNumber(item.lat).t = "number" /\ ToNumber(item.lng).t = "number"

\* lines 257-259: raw.map(normalizeItem).filter(Boolean)
locations == SelectSeq(raw, HasLatLng)

\* lines 271-275: Math.min(PRESELECT, safeLimit * DM_BUFFER, locations.length)
shortlistN(limit, n) == Min(2 * PRESELECT, Min(safeLimit(limit) * DM_BUFFER, 2 * n))

\* lines 290-300: the Distance Matrix answer merged into a shortlisted
\* location; without an OK element the air distance stands in, in metres
Merge(l) ==
    [id |-> l.id, airKm |-> l.airKm,
     distanceMeters |-> IF l.drive.ok THEN l.drive.distance ELSE l.airKm * 1000,
     hasDuration |-> l.drive.ok,
     durationSeconds |-> IF l.drive.ok THEN l.drive.duration ELSE 0]

\* lines 277-280: the locations by air distance, the nearest shortlistN of them
Shortlist(limit) ==
    sliceTo(SortFrom(<<>>, locations, "airKm"), shortlistN(limit, Len(locations)))

\* lines 290-300: pre.map(...)
Merged == [k \in 1..Len(pre) |-> Merge(pre[k])]

\* the comparator is a consistent comparator for the entries (ECMAScript,
\* Array.prototype.sort): the entries are totally preordered by it
Consistent(entries, byField) ==
    \A i, j, k \in 1..Len(entries) :
        (compare(entries[i], entries[j], byField) <= 0
           /\ compare(entries[j], entries[k], byField) <= 0)
          => compare(entries[i], entries[k], byField) <= 0

\* the entries in every order
Orders(entries) ==
    {[k \in 1..Len(entries) |-> entries[f[k]]] :
        f \in {g \in [1..Len(entries) -> 1..Len(entries)] :
                  \A i, j \in 1..Len(entries) : g[i] = g[j] => i = j}}

\* lines 302-307: merged.sort(...).  With a consistent comparator the result
\* is the stable ascending order; otherwise the order is implementation-
\* defined (ECMAScript, Array.prototype.sort), so every order may come out
SortOutcomes(entries, byField) ==
    IF Consistent(entries, byField)
    THEN {SortFrom(<<>>, entries, byField)}
    ELSE Orders(entries)

\* line 309: merged.slice(0, safeLimit)
Top(sorted, limit) == sliceTo(sorted, safeLimit(limit))

\* the response of reply(body, status): lines 20-32; `hasItems` tells a body
\* with `count` and `items` from a body with `error` or `ok`
ErrorReply(status, error) ==
    [statusCode |-> status, error |-> error, hasItems |-> FALSE, count |-> 0, items |-> <<>>]

\* lines 311-331: reply({user, count: top.length, items: top.map(...)})
ItemsReply(top) ==
    [statusCode |-> 200, error |-> "", hasItems |-> TRUE, count |-> Len(top),
     items |-> [k \in 1..Len(top) |-> top[k].id]]

NoNearReply == ErrorReply(0, "")

\* lines 225-247: the method and the environment are tested
Receive ==
    /\ npc = "start"
    /\ IF nevent.httpMethod = "OPTIONS"
       THEN /\ nreply' = ErrorReply(200, "")
            /\ npc' = "done"
       ELSE IF nevent.httpMethod # "POST"
       THEN /\ nreply' = ErrorReply(405, "Use POST")
            /\ npc' = "done"
       ELSE IF ~nevent.hasEnv
       THEN /\ nreply' = ErrorReply(500, "Missing env vars")
            /\ npc' = "done"
       ELSE /\ npc' = "geocode"
            /\ UNCHANGED nreply
    /\ UNCHANGED <<apiResponse, pc, pos, byDate, daysArray, dateStr, timeStr, utcDate,
                   schedVars, nevent, raw, pre>>

\* lines 250-280: the origin is geocoded, the collection fetched and
\* normalized, the shortlist taken; an exception goes to the catch block
\* (lines 333-335)
Locate ==
    /\ npc = "geocode"
    /\ IF nevent.services = "geocodeFails"
       THEN /\ nreply' = ErrorReply(500, "Geocode failed")
            /\ npc' = "done"
            /\ UNCHANGED pre
       ELSE IF Len(locations) = 0
       THEN /\ nreply' = ErrorReply(404, "No locations with lat/lng found.")
            /\ npc' = "done"
            /\ UNCHANGED pre
       ELSE /\ pre' = Shortlist(nevent.limit)
            /\ npc' = "matrix"
            /\ UNCHANGED nreply
    /\ UNCHANGED <<apiResponse, pc, pos, byDate, daysArray, dateStr, timeStr, utcDate,
                   schedVars, nevent, raw>>

\* lines 283-335: Distance Matrix answers, the shortlist is merged, sorted
\* and cut, and the items are sent
Rank ==
    /\ npc = "matrix"
    /\ IF nevent.services = "matrixFails"
       THEN nreply' = ErrorReply(500, "Distance Matrix")
       ELSE \E sorted \in SortOutcomes(Merged, "driving") :
               nreply' = ItemsReply(Top(sorted, nevent.limit))
    /\ npc' = "done"
    /\ UNCHANGED <<apiResponse, pc, pos, byDate, daysArray, dateStr, timeStr, utcDate,
                   schedVars, nevent, raw, pre>>


(***************************************************************************)
(* Inputs                                                                  *)
(***************************************************************************)
MaxItems == 3

LegacyYear == 50

FirstYear == 2024

LastYear == 2026

\* "YYYY-MM-DD" and "HH:MM:SS" as the upstream API writes them
DateChars(y, m, d) == Pad(y, 4) \o <<"-">> \o Pad(m, 2) \o <<"-">> \o Pad(d, 2)

TimeChars(h, mi, sec) == Pad(h, 2) \o <<":">> \o Pad(mi, 2) \o <<":">> \o Pad(sec, 2)

Dec08 == Str(DateChars(2025, 12, 8))

Dec09 == Str(DateChars(2025, 12, 9))

T0615 == Str(TimeChars(6, 15, 0))

T0700 == Str(TimeChars(7, 0, 0))

T0800 == Str(TimeChars(8, 0, 0))

\* "2025-12": no day field
ShortDate == Str(<<"2", "0", "2", "5", "-", "1", "2">>)

\* "2025-12-08-01": a fourth field
LongDate == Str(DateChars(2025, 12, 8) \o <<"-", "0", "1">>)

\* "20a5-12-08": a year that is no number
AlphaDate == Str(<<"2", "0", "a", "5", "-", "1", "2", "-", "0", "8">>)

\* "2025--08": an empty month field
EmptyMonthDate == Str(<<"2", "0", "2", "5", "-", "-", "0", "8">>)

\* "2025-12-00": a day of zero
ZeroDayDate == Str(DateChars(2025, 12, 0))

\* "06:15": no seconds field
ShortTime == Str(<<"0", "6", ":", "1", "5">>)

\* "06": the hour alone
HourOnly == Str(<<"0", "6">>)

\* "0a:15:00", "06:a5:00", "06:15:a0": an hour, a minute, a second that is no number
AlphaHour == Str(<<"0", "a", ":", "1", "5", ":", "0", "0">>)

AlphaMinute == Str(<<"0", "6", ":", "a", "5", ":", "0", "0">>)

AlphaSecond == Str(<<"0", "6", ":", "1", "5", ":", "a", "0">>)

\* "06:15:00:00": a fourth field
LongTime == Str(TimeChars(6, 15, 0) \o <<":", "0", "0">>)

\* the elements a `result` array is made of: null, a primitive, well-formed
\* records of two dates (listed later date first), and records with a missing,
\* non-string or malformed property
Elements ==
    { Null, Num(7),
      Record(Dec09, T0700, T0800),
      Record(Dec08, T0700, T0800),
      Record(Dec08, T0615, T0700),
      Record(Undefined, T0615, T0700),
      Record(Dec08, T0615, Str(<<>>)),
      Record(ShortDate, T0615, T0700),
      Record(Dec08, AlphaHour, T0700),
      Record(Dec08, ShortTime, T0700),
      Record(Num(20251208), T0615, T0700),
      Record(Dec08, Num(615), T0700) }

RECURSIVE SeqsUpTo(_, _)
SeqsUpTo(S, n) ==
    IF n = 0 THEN {<<>>}
    ELSE LET shorter == SeqsUpTo(S, n - 1)
         IN shorter \cup {Append(q, x) : q \in {r \in shorter : Len(r) = n - 1}, x \in S}

ResultArrays == SeqsUpTo(Elements, MaxItems)

\* what transformSchedule may be called with: a container of an array, a bare
\* array, and the structurally invalid values
Inputs ==
    {Container(Array(q)) : q \in ResultArrays}
      \cup {Array(q) : q \in ResultArrays}
      \cup {Null, Undefined, EmptyObject, Container(Undefined), Container(Null),
            Container(Num(5)), Container(Str(<<"a">>)), Container(EmptyObject),
            Num(0), Num(5), Str(<<"a">>)}

ParseArrivals ==
    {Dec08, ShortDate, LongDate, AlphaDate, EmptyMonthDate, ZeroDayDate}

ParseTimes ==
    {T0615, ShortTime, HourOnly, AlphaHour, AlphaMinute, AlphaSecond, LongTime}

\* one record with all three properties present, then a well-formed record
ParseInputs ==
    {Container(Array(<<Record(a, st, en), Record(Dec09, T0700, T0800)>>)) :
        a \in ParseArrivals, st \in ParseTimes, en \in ParseTimes}

\* the civil dates and times of the converter's check
IsLeap(y) == (y % 4 = 0 /\ y % 100 # 0) \/ y % 400 = 0

DaysInMonth(y, m) ==
    IF m = 2 THEN (IF IsLeap(y) THEN 29 ELSE 28)
    ELSE IF m \in {4, 6, 9, 11} THEN 30 ELSE 31

ConvYears == {LegacyYear} \cup (FirstYear..LastYear)

ConvDates ==
    UNION {UNION {{Str(DateChars(y, m, d)) : d \in 1..DaysInMonth(y, m)} : m \in 1..12} :
             y \in ConvYears}

ConvTimes == {Str(TimeChars(h, mi, 0)) : h \in 0..23, mi \in {0, 30}}

\* the arguments of a sequence of calls of transformSchedule
MaxCallItems == 2

CallElements ==
    { Null,
      Record(Dec09, T0700, T0800),
      Record(Dec08, T0615, T0700),
      Record(Dec08, ShortTime, T0700) }

CallInputs == {Container(Array(q)) : q \in SeqsUpTo(CallElements, MaxCallItems)} \cup {Null}

\* arrival strings of one month: zero-padded, without padding ("2025-12-8",
\* "2025-12-9"), and with a day past the end of the month ("2025-11-31")
Dec01 == Str(DateChars(2025, 12, 1))

Dec10 == Str(DateChars(2025, 12, 10))

Dec8Unpadded == Str(<<"2", "0", "2", "5", "-", "1", "2", "-", "8">>)

Dec9Unpadded == Str(<<"2", "0", "2", "5", "-", "1", "2", "-", "9">>)

Nov31 == Str(DateChars(2025, 11, 31))

KeyArrivals == {Dec01, Dec08, Dec09, Dec10, Dec8Unpadded, Dec9Unpadded, Nov31}

MaxKeyItems == 3

KeyInputs ==
    {Container(Array(q)) :
        q \in SeqsUpTo({Record(a, T0615, T0700) : a \in KeyArrivals}, MaxKeyItems)}

\* two classes on every civil date of ConvYears
DayInputs ==
    {Container(Array(<<Record(d, T0615, T0700), Record(d, T0700, T0800)>>)) :
        d \in ConvDates}

\* one record with every pair of times around the switch hours, on every day
\* of March and November of ConvYears
OrderDates ==
    UNION {UNION {{Str(DateChars(y, m, d)) : d \in 1..DaysInMonth(y, m)} : m \in {3, 11}} :
             y \in ConvYears}

OrderTimes == {Str(TimeChars(h, mi, 0)) : h \in {0, 1, 2, 3, 23}, mi \in {0, 30}}

OrderInputs ==
    {Container(Array(<<Record(d, t1, t2)>>)) :
        d \in OrderDates, t1 \in OrderTimes, t2 \in OrderTimes}

\* requests of the schedule handler
Events == {Null, Query(Undefined), Query(Str(<<>>)), Query(Str(<<"7">>))}

Keys == {Undefined, Str(<<>>), Str(<<"k">>)}

Payloads ==
    { Null,
      Container(Array(<<>>)),
      Container(Array(<<Null>>)),
      Container(Array(<<Record(Dec08, T0615, T0700)>>)),
      Container(Array(<<Record(Dec09, T0700, T0800), Record(Dec08, T0615, T0700)>>)) }

Statuses == {200, 204, 404, 500, 503}

Upstreams ==
    {Rejects}
      \cup {Resolves(st, FALSE, Undefined) : st \in Statuses}
      \cup {Resolves(st, TRUE, d) : st \in Statuses, d \in Payloads}

\* requests of the nearest-locations handler; item i of a collection of
\* pattern p: in pattern 2 every third item has no latitude, in pattern 3
\* every second item has a longitude that is no number; every fourth item
\* gets no OK element from Distance Matrix
MaxLocations == 12

NearItem(i, p) ==
    [id |-> i,
     lat |-> IF p = 2 /\ i % 3 = 0 THEN Undefined ELSE Num(30 + i),
     lng |-> IF p = 3 /\ i % 2 = 0 THEN Str(<<"a">>) ELSE Str(<<"-", "9", Digits[(i % 10) + 1]>>),
     airKm |-> ((i * 7) % 13) + 1,
     drive |-> [ok |-> i % 4 # 0,
                distance |-> (((i * 7) % 13) + 1) * 1200,
                duration |-> (((i * 7) % 13) + 1) * 90]]

\* locations whose driving time and distance disagree, and one that gets no
\* OK element: A is 30 km and 10 min away by road, C 10 km and 20 min, D 6 km
\* and 5 min, and B is 20 km away by air
Located(airKm, drive) ==
    [id |-> 0, lat |-> Num(30), lng |-> Num(0 - 90), airKm |-> airKm, drive |-> drive]

LocationA == Located(25, [ok |-> TRUE, distance |-> 30000, duration |-> 600])

LocationB == Located(20, [ok |-> FALSE, distance |-> 0, duration |-> 0])

LocationC == Located(8, [ok |-> TRUE, distance |-> 10000, duration |-> 1200])

LocationD == Located(5, [ok |-> TRUE, distance |-> 6000, duration |-> 300])

MaxRanked == 3

\* item i of a collection has id i
RankedCollections ==
    {[i \in 1..Len(q) |-> [q[i] EXCEPT !.id = i]] :
        q \in SeqsUpTo({LocationA, LocationB, LocationC, LocationD}, MaxRanked)}

Collections ==
    {[i \in 1..n |-> NearItem(i, p)] : n \in 0..MaxLocations, p \in 1..3}
      \cup RankedCollections

\* limit: absent, null, numbers (2.5 and 0.5 among them) and strings
Limits ==
    { Undefined, Null, Num(0 - 2), Num(0), Num(1), Num(2), Num(3), Num(10), Num(11),
      Num(50), Half(5), Half(1), Str(<<"5">>), Str(<<"a">>), Str(<<>>) }

NearEvents ==
    [httpMethod : {"OPTIONS", "GET", "POST"}, limit : Limits, hasEnv : BOOLEAN,
     services : {"ok", "geocodeFails", "matrixFails"}]

(***************************************************************************)
(* Specifications                                                          *)
(***************************************************************************)
\* the schedule handler is not running
NoSchedule ==
    /\ event = Null
    /\ apiKey = Undefined
    /\ upstream = Rejects
    /\ hpc = "off"
    /\ fetches = 0
    /\ reply = NoResponse

\* the nearest-locations handler is not running
NoNearest ==
    /\ nevent = [httpMethod |-> "POST", limit |-> Undefined, hasEnv |-> FALSE,
                 services |-> "ok"]
    /\ raw = <<>>
    /\ npc = "off"
    /\ pre = <<>>
    /\ nreply = NoNearReply

NoCall ==
    /\ pc = "idle"
    /\ pos = 0
    /\ byDate = <<>>
    /\ daysArray = <<>>
    /\ utcDate = InvalidDate
    /\ NoSchedule
    /\ NoNearest

Init ==
    /\ NoCall
    /\ apiResponse \in Inputs
    /\ dateStr = Undefined
    /\ timeStr = Undefined

InitParse ==
    /\ NoCall
    /\ apiResponse \in ParseInputs
    /\ dateStr = Undefined
    /\ timeStr = Undefined

InitConv ==
    /\ NoCall
    /\ apiResponse = Undefined
    /\ dateStr \in ConvDates
    /\ timeStr \in ConvTimes

InitCalls ==
    /\ NoCall
    /\ apiResponse \in CallInputs
    /\ dateStr = Undefined
    /\ timeStr = Undefined

InitKeys ==
    /\ NoCall
    /\ apiResponse \in KeyInputs
    /\ dateStr = Undefined
    /\ timeStr = Undefined

InitDays ==
    /\ NoCall
    /\ apiResponse \in DayInputs
    /\ dateStr = Undefined
    /\ timeStr = Undefined

InitOrder ==
    /\ NoCall
    /\ apiResponse \in OrderInputs
    /\ dateStr = Undefined
    /\ timeStr = Undefined

\* a request arrives at the schedule handler; transformSchedule is not
\* called yet
InitHandler ==
    /\ pc = "off"
    /\ pos = 0
    /\ byDate = <<>>
    /\ daysArray = <<>>
    /\ utcDate = InvalidDate
    /\ apiResponse = Undefined
    /\ dateStr = Undefined
    /\ timeStr = Undefined
    /\ event \in Events
    /\ apiKey \in Keys
    /\ upstream \in Upstreams
    /\ hpc = "start"
    /\ fetches = 0
    /\ reply = NoResponse
    /\ NoNearest

\* a request arrives at the nearest-locations handler
InitNearest ==
    /\ pc = "off"
    /\ pos = 0
    /\ byDate = <<>>
    /\ daysArray = <<>>
    /\ utcDate = InvalidDate
    /\ apiResponse = Undefined
    /\ dateStr = Undefined
    /\ timeStr = Undefined
    /\ NoSchedule
    /\ nevent \in NearEvents
    /\ raw \in Collections
    /\ npc = "start"
    /\ pre = <<>>
    /\ nreply = NoNearReply

\* transformSchedule has returned or thrown and is called again, with an
\* argument of CallInputs; the locals of the finished call are whatever it
\* left
CallAgain ==
    /\ pc \in {"returned", "threw"}
    /\ apiResponse' \in CallInputs
    /\ pc' = "idle"
    /\ UNCHANGED <<pos, byDate, daysArray, dateStr, timeStr, utcDate, schedVars, nearVars>>

Next == Call \/ LoopStep \/ Finish

NextCalls == Call \/ LoopStep \/ Finish \/ CallAgain

NextHandler ==
    Enter \/ CheckKey \/ Fetch \/ FetchSettles \/ JsonSettles
      \/ Call \/ LoopStep \/ Finish \/ Respond

NextNearest == Receive \/ Locate \/ Rank

NextConv == Convert

\* transformSchedule on every input of Inputs
Spec == Init /\ [][Next]_vars

\* transformSchedule on the records of ParseInputs
SpecParse == InitParse /\ [][Next]_vars

\* centralToUtcDate on every civil date and time of ConvDates and ConvTimes
SpecConv == InitConv /\ [][NextConv]_vars

\* one call of transformSchedule after another
SpecCalls == InitCalls /\ [][NextCalls]_vars

\* transformSchedule on arrival strings of differing widths
SpecKeys == InitKeys /\ [][Next]_vars

\* transformSchedule on every civil date of ConvYears
SpecDays == InitDays /\ [][Next]_vars

\* transformSchedule on pairs of times of one date
SpecOrder == InitOrder /\ [][Next]_vars

\* one request to the schedule handler
SpecHandler == InitHandler /\ [][NextHandler]_vars

\* one request to the nearest-locations handler
SpecNearest == InitNearest /\ [][NextNearest]_vars

(***************************************************************************)
(* The calendar the claims are stated in: the proleptic Gregorian          *)
(* calendar, computed from the year without the Date object                *)
(***************************************************************************)
RECURSIVE DaysBeforeMonth(_, _)
DaysBeforeMonth(y, m) ==
    IF m = 1 THEN 0 ELSE DaysBeforeMonth(y, m - 1) + DaysInMonth(y, m - 1)

\* days from 1970-01-01 to the civil date y-m-d
RefDayNumber(y, m, d) ==
    365 * (y - 1) + (y - 1) \div 4 - (y - 1) \div 100 + (y - 1) \div 400
      + DaysBeforeMonth(y, m) + d - 719163

\* 0 = Sunday .. 6 = Saturday
RefWeekday(y, m, d) == (RefDayNumber(y, m, d) + 4) % 7

\* the earliest day >= 1 of the month that is a Sunday, advanced nth - 1 weeks
RefNthSunday(y, m, nth) ==
    (CHOOSE d \in 1..7 : RefWeekday(y, m, d) = 0) + 7 * (nth - 1)

\* the civil instant month-day hour:minute as one number, for comparison
CivilOrder(m, d, h, mi) == ((m * 32 + d) * 24 + h) * 60 + mi

\* on or after 02:00 of the second Sunday of March and before 02:00 of the
\* first Sunday of November
InDstWindow(y, m, d, h, mi) ==
    /\ CivilOrder(m, d, h, mi) >= CivilOrder(3, RefNthSunday(y, 3, 2), 2, 0)
    /\ CivilOrder(m, d, h, mi) < CivilOrder(11, RefNthSunday(y, 11, 1), 2, 0)

\* the UTC instant that lies `offset` hours after the civil instant
RefInstant(y, m, d, h, mi, offset) ==
    TimeValue(RefDayNumber(y, m, d) + (h + offset) \div 24,
              (((h + offset) % 24) * 3600 + mi * 60) * 1000)

\* the fields of the well-formed dateStr and timeStr of a direct call, read
\* by position
ConvYear == DigitsValue(SubSeq(dateStr.s, 1, 4), 0)

ConvMonth == DigitsValue(SubSeq(dateStr.s, 6, 7), 0)

ConvDay == DigitsValue(SubSeq(dateStr.s, 9, 10), 0)

ConvHour == DigitsValue(SubSeq(timeStr.s, 1, 2), 0)

ConvMinute == DigitsValue(SubSeq(timeStr.s, 4, 5), 0)

IsoOf(y, m, d, h, mi) ==
    DateChars(y, m, d) \o <<"T">> \o TimeChars(h, mi, 0) \o <<".", "0", "0", "0", "Z">>

\* the result of the direct call is the civil instant plus 5 hours inside the
\* daylight window of its year and plus 6 hours outside it
OffsetByWindow ==
    utcDate = RefInstant(ConvYear, ConvMonth, ConvDay, ConvHour, ConvMinute,
                         IF InDstWindow(ConvYear, ConvMonth, ConvDay, ConvHour, ConvMinute)
                         THEN 5 ELSE 6)

\* the two starts of 2025-11-02 that the specification names
DstEndDayExamples ==
    /\ (dateStr = Str(DateChars(2025, 11, 2)) /\ timeStr = Str(TimeChars(1, 30, 0)))
          => (~utcDate.nan /\ ISOString(utcDate) = IsoOf(2025, 11, 2, 6, 30))
    /\ (dateStr = Str(DateChars(2025, 11, 2)) /\ timeStr = Str(TimeChars(2, 30, 0)))
          => (~utcDate.nan /\ ISOString(utcDate) = IsoOf(2025, 11, 2, 8, 30))

(***************************************************************************)
(* C1: for every year, every valid civil date and every civil time of hour *)
(* 0..23, centralToUtcDate adds 5 hours exactly when the civil instant is  *)
(* on or after 02:00 of the second Sunday of March and before 02:00 of the *)
(* first Sunday of November of that year, and 6 hours otherwise; on        *)
(* 2025-11-02, 01:30:00 gives 06:30:00.000Z and 02:30:00 gives             *)
(* 08:30:00.000Z.                                                          *)
(***************************************************************************)
C1_DstWindowEveryYear ==
    pc = "converted" => (OffsetByWindow /\ DstEndDayExamples)

\* the same statement for the years Date.UTC takes as written (100 and later):
\* it holds there, the two-digit years are where it fails
C1_DstWindowFromYear100 ==
    (pc = "converted" /\ ConvYear >= 100) => (OffsetByWindow /\ DstEndDayExamples)

\* a start inside the hour before the window closes has been converted
C1_InWindowConverted ==
    /\ pc = "converted"
    /\ dateStr = Str(DateChars(2025, 11, 2))
    /\ timeStr = Str(TimeChars(1, 30, 0))

(***************************************************************************)
(* What the claims about transformSchedule speak of                        *)
(***************************************************************************)
Done == pc \in {"returned", "threw"}

HasArray == IsArray(GetResult(apiResponse))

RECURSIVE ClassCount(_)
ClassCount(days) ==
    IF days = <<>> THEN 0 ELSE Len(Head(days).classes) + ClassCount(Tail(days))

\* the positions <<g, k>> of the classes of a sequence of DayGroups
ClassPositions(days) ==
    UNION {{<<g, k>> : k \in 1..Len(days[g].classes)} : g \in 1..Len(days)}

\* a record that lacks arrival, starttime or endtime (an element that is no
\* object lacks all three)
LacksField(item) ==
    \E name \in {"arrival", "starttime", "endtime"} : ~Truthy(Prop(item, name))

\* a record with the three fields whose date or time does not convert
FailsToParse(item) ==
    /\ ~LacksField(item)
    /\ \/ centralToUtcDate(Prop(item, "arrival"), Prop(item, "starttime")).nan
       \/ centralToUtcDate(Prop(item, "arrival"), Prop(item, "endtime")).nan

Dropped(elems) == {k \in 1..Len(elems) : LacksField(elems[k]) \/ FailsToParse(elems[k])}

\* the record at position k of `result` is in the output
Emitted(k) ==
    \E p \in ClassPositions(daysArray) : daysArray[p[1]].classes[p[2]].src = k

(***************************************************************************)
(* C2: for every input container the number of classes emitted equals the  *)
(* number of records of `result` minus those missing arrival, starttime or *)
(* endtime minus those whose date or time fails to parse; a dropped record *)
(* never keeps the records after it from being processed and emitted.      *)
(***************************************************************************)
C2_RecordDropCount ==
    (Done /\ HasArray) =>
        /\ ClassCount(daysArray) = Len(Items) - Cardinality(Dropped(Items))
        /\ \A k \in 1..Len(Items) : (k \notin Dropped(Items)) => Emitted(k)

\* the same count for the arrays that hold no null element: there it holds
C2_RecordDropCountOfObjects ==
    (Done /\ HasArray /\ \A k \in 1..Len(Items) : ~ThrowsOnRead(Items[k])) =>
        /\ pc = "returned"
        /\ ClassCount(daysArray) = Len(Items) - Cardinality(Dropped(Items))
        /\ \A k \in 1..Len(Items) : (k \notin Dropped(Items)) => Emitted(k)

(***************************************************************************)
(* C3: transformSchedule never throws to its caller for malformed data:    *)
(* whatever the top-level input and the elements of `result` (null,        *)
(* non-objects, records with non-string or unparsable fields), it returns. *)
(***************************************************************************)
C3_NeverThrows == pc # "threw"

(***************************************************************************)
(* C4: a record whose arrival, starttime and endtime are present but whose *)
(* date or time components are malformed (a non-numeric component, or a    *)
(* field count other than three) is a conversion failure and is skipped:   *)
(* it is in no DayGroup and no DayGroup is created for it.                 *)
(***************************************************************************)
\* the record under test: the first element of `result`
Subject == Items[1]

NumericField(f) == f # <<>> /\ AllDigits(f)

\* malformed as the claim has it: not three fields, or a field that is no number
Malformed(chars, sep) ==
    LET f == split(chars, sep)
    IN Len(f) # 3 \/ \E k \in 1..Len(f) : ~NumericField(f[k])

SubjectMalformed ==
    \/ Malformed(Prop(Subject, "arrival").s, "-")
    \/ Malformed(Prop(Subject, "starttime").s, ":")
    \/ Malformed(Prop(Subject, "endtime").s, ":")

\* no class of the record and no DayGroup of its arrival string, in byDate
\* and in the returned array
SubjectSkipped ==
    /\ \A g \in 1..Len(byDate) : byDate[g].date # Prop(Subject, "arrival").s
    /\ \A g \in 1..Len(daysArray) : daysArray[g].date # Prop(Subject, "arrival").s
    /\ ~Emitted(1)

C4_MalformedIsSkipped ==
    (pc = "returned" /\ SubjectMalformed) => SubjectSkipped

\* C4 as amended: what the code takes for a failure.  A date fails when one
\* of its first three fields is missing, is no number or is zero (an empty
\* field is zero); a time fails when its hour or minute field is there and
\* is no number.  A missing minute or second, a second that is no number and
\* the fields after the third do not fail.
DateFails(chars) ==
    LET f == split(chars, "-")
    IN Len(f) < 3 \/ \E k \in 1..3 : (~NumericField(f[k]) \/ DigitsValue(f[k], 0) = 0)

TimeFails(chars) ==
    LET f == split(chars, ":")
    IN \E k \in 1..Len(f) : k <= 2 /\ f[k] # <<>> /\ ~AllDigits(f[k])

SubjectFails ==
    \/ DateFails(Prop(Subject, "arrival").s)
    \/ TimeFails(Prop(Subject, "starttime").s)
    \/ TimeFails(Prop(Subject, "endtime").s)

C4_FailureIsSkipped ==
    /\ (pos >= 1 /\ SubjectFails) => SubjectSkipped
    /\ (pc = "returned" /\ ~SubjectFails) => (Emitted(1) /\ ~SubjectSkipped)

\* a record with an hour that is no number has been passed over, and the
\* record after it emitted
C4_AlphaHourSkipped ==
    /\ pc = "returned"
    /\ Prop(Subject, "starttime") = AlphaHour
    /\ SubjectSkipped
    /\ Emitted(2)

(***************************************************************************)
(* C5: for a structurally invalid top-level input (null, undefined, an     *)
(* empty object, an object whose `result` is missing or no sequence)       *)
(* transformSchedule returns an empty sequence and raises no error.        *)
(***************************************************************************)
StructurallyInvalid(a) ==
    \/ a \in {Null, Undefined}
    \/ (a.t = "object" /\ ~IsArray(GetResult(a)))

C5_InvalidInputIsEmpty ==
    (pc # "idle" /\ StructurallyInvalid(apiResponse)) =>
        (pc = "returned" /\ daysArray = <<>> /\ byDate = <<>>)

C5_NullReturned == pc = "returned" /\ apiResponse = Null

C7_GroupedByArrival ==
    pc = "returned" =>
        \A p \in ClassPositions(daysArray) :
            LET c == daysArray[p[1]].classes[p[2]]
            IN /\ c.src \in 1..Len(Items)
               /\ IsString(Prop(Items[c.src], "arrival"))
               /\ c.dateCentral = Prop(Items[c.src], "arrival").s
               /\ daysArray[p[1]].date = c.dateCentral
               /\ \A q \in ClassPositions(daysArray) :
                     daysArray[q[1]].classes[q[2]].src = c.src => q = p

\* two DayGroups returned, one of them with two classes
C7_TwoDaysReturned ==
    /\ pc = "returned"
    /\ Len(daysArray) = 2
    /\ \E g \in 1..2 : Len(daysArray[g].classes) = 2

(***************************************************************************)
(* C8: the DayGroups returned are in strictly ascending order of `date`   *)
(* under string comparison, whatever the order the dates first appear in. *)
(***************************************************************************)
C8_DaysAscending ==
    pc = "returned" =>
        \A g \in 1..(Len(daysArray) - 1) : StrLess(daysArray[g].date, daysArray[g + 1].date)

\* the later date came first in the input
C8_LaterDateFirst ==
    /\ pc = "returned"
    /\ Len(byDate) = 2
    /\ byDate[1].date = Dec09.s
    /\ byDate[2].date = Dec08.s
    /\ Len(daysArray) = 2

(***************************************************************************)
(* C9: in every DayGroup returned the classes are in non-decreasing order *)
(* of startTimeUTC under string comparison, whatever the input order.     *)
(***************************************************************************)
C9_ClassesByStart ==
    pc = "returned" =>
        \A g \in 1..Len(daysArray) :
            \A k \in 1..(Len(daysArray[g].classes) - 1) :
                ~StrLess(daysArray[g].classes[k + 1].startTimeUTC,
                         daysArray[g].classes[k].startTimeUTC)

\* a 07:00:00 record came before a 06:15:00 record of the same date
C9_LaterStartFirst ==
    /\ pc = "returned"
    /\ \E g \in 1..Len(daysArray) :
          /\ Len(daysArray[g].classes) = 2
          /\ daysArray[g].classes[1].src > daysArray[g].classes[2].src
          /\ daysArray[g].classes[1].startTimeCentral = T0615
          /\ daysArray[g].classes[2].startTimeCentral = T0700

(***************************************************************************)
(* C10: the sort of a day is stable: two classes of one DayGroup with the *)
(* same startTimeUTC keep the order their records have in `result`.       *)
(***************************************************************************)
C10_StableWithinDay ==
    pc = "returned" =>
        \A g \in 1..Len(daysArray) :
            \A k, l \in 1..Len(daysArray[g].classes) :
                (k < l /\ daysArray[g].classes[k].startTimeUTC
                            = daysArray[g].classes[l].startTimeUTC)
                    => daysArray[g].classes[k].src < daysArray[g].classes[l].src

\* a day with a later class first in the input and two classes of one start
C10_TieSorted ==
    /\ pc = "returned"
    /\ \E g \in 1..Len(daysArray) :
          /\ Len(daysArray[g].classes) = 3
          /\ daysArray[g].classes[3].src = 1
          /\ daysArray[g].classes[1].startTimeUTC = daysArray[g].classes[2].startTimeUTC
          /\ daysArray[g].classes[1].startTimeCentral
                # daysArray[g].classes[2].startTimeCentral

(***************************************************************************)
(* C11: applying the two sorts of transformSchedule (the days by date, the *)
(* classes of each day by startTimeUTC) to an output of transformSchedule  *)
(* gives that output again: every DayGroup and every class keeps its       *)
(* position.                                                               *)
(***************************************************************************)
C11_ResortIsIdentity == pc = "returned" => SortedDays(daysArray) = daysArray

\* an output of two days, one of them with two classes of one start
C11_TwoDaysWithTie ==
    /\ pc = "returned"
    /\ Len(daysArray) = 2
    /\ \E g \in 1..2 :
          /\ Len(daysArray[g].classes) = 2
          /\ daysArray[g].classes[1].startTimeUTC = daysArray[g].classes[2].startTimeUTC

(***************************************************************************)
(* C12: transformSchedule has no side effect and keeps no state: no step   *)
(* of an invocation changes its argument, and whatever invocations ran     *)
(* before, an invocation ends as the function TransformOutcome of its      *)
(* argument alone says (equal arguments, equal results).                   *)
(***************************************************************************)
C12_NoSideEffects ==
    /\ [](Done => TransformOutcome(apiResponse) = [pc |-> pc, value |-> daysArray])
    /\ [][pc' # "idle" => apiResponse' = apiResponse]_vars

\* a call is about to be made while the byDate and the result of the call
\* before it still hold a DayGroup
C12_CalledAfterAnotherCall ==
    /\ pc = "idle"
    /\ Len(byDate) > 0
    /\ Len(daysArray) > 0
    /\ apiResponse # Null
    /\ Len(Items) > 0

(***************************************************************************)
(* The causes of the schedule handler's answers, read from the request,    *)
(* the environment and the upstream                                        *)
(***************************************************************************)
HasCompany ==
    /\ event.t = "object"
    /\ event.company_id.t = "string"
    /\ Len(event.company_id.s) > 0

HasKey == apiKey.t = "string" /\ Len(apiKey.s) > 0

KeyAbsent == HasCompany /\ ~HasKey

NetworkFailed == HasCompany /\ HasKey /\ upstream.rejects

UpstreamRefused ==
    HasCompany /\ HasKey /\ ~upstream.rejects /\ ~(upstream.status \in 200..299)

\* the kind of answer a caller reads off the status code and the error text
ReportedKind(r) ==
    CASE r.statusCode = 200 -> "success"
      [] r.error = "Server configuration error: API Key missing" -> "configuration error"
      [] r.error = "External API error" -> "upstream error"
      [] r.error = "Failed to fetch schedule" -> "fetch failure"
      [] OTHER -> "other"

C14_ChecksBeforeWork ==
    /\ ~HasCompany =>
          /\ fetches = 0
          /\ pc = "off"
          /\ hpc = "done" => reply.statusCode = 400
    /\ KeyAbsent =>
          /\ fetches = 0
          /\ pc = "off"
          /\ hpc = "done" =>
                /\ reply.statusCode = 500
                /\ reply.error = "Server configuration error: API Key missing"
    /\ pc # "off" =>
          /\ fetches = 1
          /\ ~upstream.rejects
          /\ upstream.status \in 200..299

\* the handler has answered a request that has a company_id and no key
C14_KeyCheckAnswered ==
    /\ hpc = "done"
    /\ KeyAbsent
    /\ reply.statusCode = 500
    /\ fetches = 0

(***************************************************************************)
(* C15: the result of centralToUtcDate is the civil instant plus 5 or plus *)
(* 6 hours, with the overflow carried: an hour of 24 or more into the next *)
(* day, and the day into the month and the year (23:00 on 31 December is   *)
(* 05:00 on 1 January of the next year).                                   *)
(***************************************************************************)
C15_OffsetAddedWithCarry ==
    pc = "converted" =>
        /\ ~utcDate.nan
        /\ \E offset \in {5, 6} :
              utcDate = RefInstant(ConvYear, ConvMonth, ConvDay, ConvHour, ConvMinute, offset)

\* the same for the years from 100 on
C15_CarryFromYear100 == ConvYear >= 100 => C15_OffsetAddedWithCarry

\* 23:00 on 31 December 2025 is 05:00 on 1 January 2026
C15_NewYearCarry ==
    (pc = "converted" /\ dateStr = Str(DateChars(2025, 12, 31))
       /\ timeStr = Str(TimeChars(23, 0, 0)))
      => ISOString(utcDate) = IsoOf(2026, 1, 1, 5, 0)

\* the values emitted for arrival 2025-12-08, 06:15:00 to 07:00:00
C15_Dec08Emitted ==
    (pc = "returned" /\ apiResponse = Container(Array(<<Record(Dec08, T0615, T0700)>>))) =>
        /\ daysArray[1].classes[1].startTimeUTC = IsoOf(2025, 12, 8, 12, 15)
        /\ daysArray[1].classes[1].endTimeUTC = IsoOf(2025, 12, 8, 13, 0)
        /\ daysArray[1].classes[1].startTimeUTCShort = <<"1", "2", ":", "1", "5">>

(***************************************************************************)
(* The civil date an arrival string denotes: the numbers of its year,      *)
(* month and day fields, whatever their widths                             *)
(***************************************************************************)
CivilDateOf(chars) ==
    LET f == split(chars, "-")
    IN <<DigitsValue(f[1], 0), DigitsValue(f[2], 0), DigitsValue(f[3], 0)>>

CivilBefore(a, b) ==
    \/ a[1] < b[1]
    \/ a[1] = b[1] /\ a[2] < b[2]
    \/ a[1] = b[1] /\ a[2] = b[2] /\ a[3] < b[3]

\* the positions of the accepted records of `result`
Accepted == (1..Len(Items)) \ Dropped(Items)

AcceptedArrivals == {Prop(Items[k], "arrival").s : k \in Accepted}

\* a zero-padded YYYY-MM-DD string of a calendar date
Canonical(chars) ==
    /\ Len(chars) = 10
    /\ chars[5] = "-" /\ chars[8] = "-"
    /\ \A k \in {1, 2, 3, 4, 6, 7, 9, 10} : IsDigit(chars[k])
    /\ CivilDateOf(chars)[2] \in 1..12
    /\ CivilDateOf(chars)[3] \in 1..DaysInMonth(CivilDateOf(chars)[1], CivilDateOf(chars)[2])

(***************************************************************************)
(* C16 as claimed: the output holds exactly one DayGroup per distinct      *)
(* civil date among the accepted records, in ascending chronological       *)
(* order, also for arrival strings without zero padding or of differing    *)
(* widths.                                                                 *)
(***************************************************************************)
C16_OnePerCivilDate ==
    pc = "returned" =>
        /\ {CivilDateOf(daysArray[g].date) : g \in 1..Len(daysArray)}
              = {CivilDateOf(a) : a \in AcceptedArrivals}
        /\ \A g, h \in 1..Len(daysArray) :
              g < h => CivilBefore(CivilDateOf(daysArray[g].date),
                                   CivilDateOf(daysArray[h].date))

(***************************************************************************)
(* C16 as amended: one DayGroup per distinct arrival string among the      *)
(* accepted records, in ascending order of the strings; this is one        *)
(* DayGroup per civil date in chronological order when every accepted      *)
(* arrival string is a zero-padded YYYY-MM-DD calendar date.               *)
(***************************************************************************)
C16_OnePerArrivalString ==
    pc = "returned" =>
        /\ {daysArray[g].date : g \in 1..Len(daysArray)} = AcceptedArrivals
        /\ \A g, h \in 1..Len(daysArray) :
              g < h => StrLess(daysArray[g].date, daysArray[h].date)
        /\ (\A a \in AcceptedArrivals : Canonical(a)) => C16_OnePerCivilDate

\* "2025-12-8" and "2025-12-08": two DayGroups of one civil date
C16_OneDateTwoGroups ==
    /\ pc = "returned"
    /\ Len(daysArray) = 2
    /\ CivilDateOf(daysArray[1].date) = CivilDateOf(daysArray[2].date)

(***************************************************************************)
(* C17: at every step of the record loop the keys of byDate are the        *)
(* arrival strings of the records accepted so far, one DayGroup per key;   *)
(* every DayGroup holds at least one class, and its classes are the        *)
(* accepted records of its date in input order.  A skipped record creates  *)
(* no DayGroup, and the returned sequence has no empty DayGroup.           *)
(***************************************************************************)
InLoop == pc \in {"loop", "threw"} \/ (pc = "returned" /\ HasArray)

\* the accepted records among the first `pos` of `result`
AcceptedSoFar == (1..pos) \ Dropped(Items)

C17_GroupsOfAcceptedRecords ==
    /\ InLoop =>
          /\ {byDate[g].date : g \in 1..Len(byDate)}
                = {Prop(Items[k], "arrival").s : k \in AcceptedSoFar}
          /\ \A g, h \in 1..Len(byDate) : byDate[g].date = byDate[h].date => g = h
          /\ \A g \in 1..Len(byDate) :
                LET classes == byDate[g].classes
                IN /\ Len(classes) >= 1
                   /\ {classes[i].src : i \in 1..Len(classes)}
                         = {k \in AcceptedSoFar : Prop(Items[k], "arrival").s = byDate[g].date}
                   /\ \A i, j \in 1..Len(classes) : i < j => classes[i].src < classes[j].src
    /\ pc = "returned" => \A g \in 1..Len(daysArray) : Len(daysArray[g].classes) >= 1

\* the loop is past a skipped record and an accepted one, with one DayGroup
C17_SkippedThenAccepted ==
    /\ pc = "loop"
    /\ pos = 2
    /\ 1 \in Dropped(Items)
    /\ ~(2 \in Dropped(Items))
    /\ Len(byDate) = 1

(***************************************************************************)
(* C18: for every DayGroup returned, `day` and `dayFull` are the short and *)
(* full names of the day of the week of the civil date in its `date` key   *)
(* (0 = Sunday .. 6 = Saturday, no shift by a time zone), and every class  *)
(* of the DayGroup carries the same short name in dayOfWeek.               *)
(***************************************************************************)
WeekdayShort == <<"Sun", "Mon", "Tue", "Wed", "Thu", "Fri", "Sat">>

WeekdayFull ==
    <<"Sunday", "Monday", "Tuesday", "Wednesday", "Thursday", "Friday", "Saturday">>

WeekdayOfKey(chars) ==
    RefWeekday(CivilDateOf(chars)[1], CivilDateOf(chars)[2], CivilDateOf(chars)[3])

DayNamed(group) ==
    /\ group.day = WeekdayShort[WeekdayOfKey(group.date) + 1]
    /\ group.dayFull = WeekdayFull[WeekdayOfKey(group.date) + 1]
    /\ \A i \in 1..Len(group.classes) : group.classes[i].dayOfWeek = group.day

C18_DayNamesOfCivilDate ==
    pc = "returned" => \A g \in 1..Len(daysArray) : DayNamed(daysArray[g])

\* the same for the years from 100 on
C18_DayNamesFromYear100 ==
    pc = "returned" =>
        \A g \in 1..Len(daysArray) :
            CivilDateOf(daysArray[g].date)[1] >= 100 => DayNamed(daysArray[g])

(***************************************************************************)
(* The limit a request body asks for, in halves: a number, or a string     *)
(* that is a number; none for a missing, null or other value               *)
(***************************************************************************)
NumericText(chars) ==
    \/ chars # <<>> /\ AllDigits(chars)
    \/ Len(chars) > 1 /\ Head(chars) \in {"-", "+"} /\ AllDigits(Tail(chars))

TextValue(chars) ==
    IF Head(chars) = "-" THEN 0 - DigitsValue(Tail(chars), 0)
    ELSE IF Head(chars) = "+" THEN DigitsValue(Tail(chars), 0)
    ELSE DigitsValue(chars, 0)

HasNumericLimit(v) ==
    v.t \in {"number", "number/2"} \/ (v.t = "string" /\ NumericText(v.s))

AskedHalves(v) ==
    CASE v.t = "number" -> 2 * v.n
      [] v.t = "number/2" -> v.n
      [] OTHER -> 2 * TextValue(v.s)

\* a missing, zero or non-numeric limit counts as 3, a negative one as 1, and
\* the rest is clamped to 1..10
ClampedHalves(v) ==
    IF ~HasNumericLimit(v) \/ AskedHalves(v) = 0 THEN 2 * 3
    ELSE IF AskedHalves(v) < 2 * 1 THEN 2 * 1
    ELSE IF AskedHalves(v) > 2 * 10 THEN 2 * 10
    ELSE AskedHalves(v)

FiniteCoordinate(v) == v.t = "number" \/ (v.t = "string" /\ NumericText(v.s))

LocatedItems ==
    {i \in 1..Len(raw) : FiniteCoordinate(raw[i].lat) /\ FiniteCoordinate(raw[i].lng)}

(***************************************************************************)
(* C19: the nearest-locations handler never returns more items than the    *)
(* caller's limit clamped to 1..10, nor more than there are locations with *)
(* a finite latitude and longitude, and `count` is the length of `items`.  *)
(***************************************************************************)
C19_ItemsWithinLimit ==
    nreply.hasItems =>
        /\ 2 * Len(nreply.items) <= ClampedHalves(nevent.limit)
        /\ Len(nreply.items) <= Cardinality(LocatedItems)
        /\ nreply.count = Len(nreply.items)

\* a limit of 50 against more than ten locations: ten items
C19_TenOfMany ==
    /\ nreply.hasItems
    /\ nevent.limit = Num(50)
    /\ Cardinality(LocatedItems) > 10
    /\ Len(nreply.items) = 10

(***************************************************************************)
(* The one record of a call on a pair of times: its civil date, its two    *)
(* civil times in minutes of the day, and its class in the output          *)
(***************************************************************************)
PairDate == CivilDateOf(Prop(Items[1], "arrival").s)

MinuteOfDay(chars) ==
    DigitsValue(SubSeq(chars, 1, 2), 0) * 60 + DigitsValue(SubSeq(chars, 4, 5), 0)

PairStart == MinuteOfDay(Prop(Items[1], "starttime").s)

PairEnd == MinuteOfDay(Prop(Items[1], "endtime").s)

PairEmitted == pc = "returned" /\ Len(daysArray) = 1 /\ Len(daysArray[1].classes) = 1

PairInOrder ==
    StrLess(daysArray[1].classes[1].startTimeUTC, daysArray[1].classes[1].endTimeUTC)

WindowYear(y) == IF y <= 99 THEN 1900 + y ELSE y

\* the day the converter switches to daylight time at 02:00
SwitchDay == PairDate[2] = 3 /\ PairDate[3] = RefNthSunday(WindowYear(PairDate[1]), 3, 2)

RanksNoLater(a, b) ==
    IF a.hasDuration /\ b.hasDuration
    THEN a.durationSeconds <= b.durationSeconds
    ELSE a.distanceMeters <= b.distanceMeters

\* the merged entry of a returned item: the id of an item is its place in the
\* collection
EntryOf(id) == Merge(raw[id])

Ranked == npc \in {"matrix", "done"}

(***************************************************************************)
(* C21: the ranking comparator is a consistent ordering over the merged    *)
(* entries of every request, also when some entries have a driving         *)
(* duration and others have none: it is transitive (no cycles), and the    *)
(* returned items are in ascending rank.                                   *)
(***************************************************************************)
C21_ConsistentRanking ==
    /\ Ranked =>
          \A i, j, k \in 1..Len(Merged) :
              (RanksNoLater(Merged[i], Merged[j]) /\ RanksNoLater(Merged[j], Merged[k]))
                => RanksNoLater(Merged[i], Merged[k])
    /\ nreply.hasItems =>
          \A i, j \in 1..Len(nreply.items) :
              i < j => RanksNoLater(EntryOf(nreply.items[i]), EntryOf(nreply.items[j]))

\* the same where every merged entry has a driving duration or none has
C21_ConsistentWithoutMix ==
    (\A i, j \in 1..Len(Merged) : Merged[i].hasDuration = Merged[j].hasDuration)
      => C21_ConsistentRanking

====
